---- MODULE Spec2Model ----
(***************************************************************************)
(* A model of src/index.ts: the Yad2 scraper.                              *)
(*                                                                         *)
(*   SpecDetect  repeated calls of checkForNewItems for one topic          *)
(*   SpecFetch   one call of getYad2Response, with wall-clock time         *)
(*   Spec        main(): the p-limit pool running scrape() per project     *)
(*   SpecTopic   main() with one project, every page and state file        *)
(***************************************************************************)
EXTENDS Integers, Sequences, FiniteSets, TLC

\* ------------------------------------------------------------------ bounds

\* Longest ad list handed to checkForNewItems in SpecDetect.
MaxAds == 2
\* Largest value of the retries parameter of getYad2Response in SpecFetch.
MaxRetriesParam == 4
\* Number of projects of config.json in Spec.
NumTopics == 4

\* ------------------------------------------------------------------ state

VARIABLES
    det,    \* SpecDetect: the topic's files and the latest call
    fx,     \* SpecFetch: the locals of one call of getYad2Response
    cfg,    \* config.json and the environment: projects, secrets, served pages
    main,   \* where main() is: "idle", "running", "returned", "rejected"
    pool,   \* the p-limit limiter: its queue and its activeCount
    tp,     \* per project: where scrape() is, and its locals
    disk,   \* per project: ./data/<topic>.json and its .backup
    pushMe, \* whether push_me has been written
    sent    \* per project: the Telegram calls made, in order, with their outcome

vars == <<det, fx, cfg, main, pool, tp, disk, pushMe, sent>>

runVars == <<cfg, main, pool, tp, disk, pushMe, sent>>

\* A file of the data directory: absent, or its text.  The text is either the
\* JSON of an array of strings or something JSON.parse rejects.
Absent == [kind |-> "absent", text |-> "", arr |-> <<>>]

\* The values the variables of a specification that is not running hold.
NoCall ==
    [made |-> FALSE, ads |-> <<>>, fault |-> "none", before |-> Absent,
     threw |-> FALSE, newItems |-> <<>>, flag |-> FALSE]

DetectIdle == [file |-> Absent, backup |-> Absent, last |-> NoCall]

FetchIdle ==
    [pc |-> "idle", param |-> 0, retries |-> 0, maxTimeout |-> 0, startTime |-> 0,
     now |-> 0, gets |-> 0, aborts |-> 0, delays |-> <<>>, err |-> ""]

RunIdle ==
    /\ cfg = [projects |-> <<>>, secrets |-> FALSE, pages |-> {}]
    /\ main = "idle"
    /\ pool = [queue |-> <<>>, activeCount |-> 0]
    /\ tp = <<>>
    /\ disk = <<>>
    /\ pushMe = FALSE
    /\ sent = <<>>

\* ------------------------------------------------------------------ data

\* An extracted ad (index.ts 122-129).  address, description, structure and
\* price are strings carried unchanged into the message text; the model keeps
\* the two fields the program branches on or builds from.
AdPool ==
    { [imageUrl |-> "imgA", fullLink |-> "https://www.yad2.co.il/item/1"],
      [imageUrl |-> "imgB", fullLink |-> "https://www.yad2.co.il/item/2"],
      [imageUrl |-> "",     fullLink |-> "https://www.yad2.co.il/item/3"],
      [imageUrl |-> "",     fullLink |-> ""] }

RECURSIVE SeqsUpTo(_, _)
SeqsUpTo(S, n) ==
    IF n = 0 THEN { <<>> }
    ELSE LET shorter == SeqsUpTo(S, n - 1)
         IN  shorter \cup { Append(s, x) : s \in shorter, x \in S }

Unparseable(s) == [kind |-> "text", text |-> s, arr |-> <<>>]

\* Texts JSON.parse rejects (a truncated write, a merge conflict marker).
CorruptTexts == { "[\"imgA\"", "<<<<<<< HEAD" }

\* JSON.stringify(Array.from(savedAds), null, 2), line 169; "[]" at line 158.
JSONstringify(arr) == [kind |-> "json", text |-> "", arr |-> arr]

\* JSON.parse(data), line 146: throws on text that is not JSON.
JSONparse(data) ==
    IF data.kind = "json" THEN [ok |-> TRUE, value |-> data.arr]
    ELSE [ok |-> FALSE, value |-> <<>>]

\* ------------------------------------------------------------------ Set<string>
\* A JavaScript Set keeps insertion order and holds no value twice: a sequence
\* without repetitions.

SetHas(s, x) == \E i \in 1..Len(s) : s[i] = x

SetAdd(s, x) == IF SetHas(s, x) THEN s ELSE Append(s, x)

RECURSIVE NewSet(_)
NewSet(arr) ==
    IF arr = <<>> THEN <<>>
    ELSE SetAdd(NewSet(SubSeq(arr, 1, Len(arr) - 1)), arr[Len(arr)])

\* ------------------------------------------------------------------ checkForNewItems

\* The fs call of checkForNewItems that rejects in a call, if any: readFile
\* (144), the backup's writeFile (152), mkdir (157), the writeFile of "[]"
\* (158), the writeFile of the updated set (169), the writeFile of push_me
\* (179).  "write" and "flag" have no effect in a call that finds nothing new.
FaultsFor(file) ==
    { "none", "write", "flag" } \cup
        CASE file.kind = "absent" -> { "mkdir", "create" }
          [] file.kind = "json"   -> { "read" }
          [] file.kind = "text"   -> { "read", "backup" }

FilterNewDropRepeats(ads, savedAds) ==
    LET RECURSIVE go(_, _)
        go(i, seen) ==
            IF i > Len(ads) THEN <<>>
            ELSE IF SetHas(seen, ads[i].imageUrl) THEN go(i + 1, seen)
            ELSE <<ads[i]>> \o go(i + 1, SetAdd(seen, ads[i].imageUrl))
    IN  go(1, savedAds)

\* line 165: ads.filter((ad) => !savedAds.has(ad.imageUrl))
FilterNew(ads, savedAds) ==
    SelectSeq(ads, LAMBDA ad : ~SetHas(savedAds, ad.imageUrl))

AddNewItemsForgetSaved(savedAds, newItems) ==
    NewSet([i \in 1..Len(newItems) |-> newItems[i].imageUrl])

\* line 168: newItems.forEach((ad) => savedAds.add(ad.imageUrl))
RECURSIVE AddNewItems(_, _)
AddNewItems(savedAds, newItems) ==
    IF newItems = <<>> THEN savedAds
    ELSE AddNewItems(SetAdd(savedAds, Head(newItems).imageUrl), Tail(newItems))

BackupContentReset(data) == JSONstringify(<<>>)

\* line 152: writeFile(`${filePath}.backup`, data)
BackupContent(data) == data

\* lines 142-163: load the saved set; the outer catch turns every failure into
\* "Could not read or create <filePath>".
LoadSavedAds(file, backup, fault) ==
    LET failed == [threw |-> TRUE, savedAds |-> <<>>, file |-> file, backup |-> backup]
        parsed == JSONparse(file)
    IN  IF file.kind # "absent"                       \* fs.existsSync(filePath)
        THEN IF fault = "read" THEN failed            \* readFile rejects
             ELSE IF parsed.ok
                  THEN [threw |-> FALSE, savedAds |-> NewSet(parsed.value),
                        file |-> file, backup |-> backup]
                  ELSE IF fault = "backup" THEN failed \* writeFile(.backup) rejects
                       ELSE [threw |-> FALSE, savedAds |-> <<>>,
                             file |-> file, backup |-> BackupContent(file)]
        ELSE IF fault \in { "mkdir", "create" } THEN failed
             ELSE [threw |-> FALSE, savedAds |-> <<>>,
                   file |-> JSONstringify(<<>>), backup |-> backup]

HasNewItemsAlways(newItems) == TRUE

\* line 167: newItems.length > 0.
HasNewItems(newItems) == Len(newItems) > 0

\* lines 137-174.  The result holds what the call returned or threw and what
\* it left on disk; flag says whether createPushFlagForWorkflow wrote push_me.
CheckForNewItems(ads, file, backup, fault) ==
    LET load == LoadSavedAds(file, backup, fault)
        newItems == FilterNew(ads, load.savedAds)
        out(threw, err, items, f, flag) ==
            [threw |-> threw, err |-> err, newItems |-> items,
             file |-> f, backup |-> load.backup, flag |-> flag]
    IN  IF load.threw
        THEN out(TRUE, "Could not read or create file", <<>>, load.file, FALSE)
        ELSE IF HasNewItems(newItems)
        THEN IF fault = "write"
             THEN out(TRUE, "writeFile failed", <<>>, load.file, FALSE)
             ELSE IF fault = "flag"
             THEN out(TRUE, "writeFile failed", <<>>,
                      JSONstringify(AddNewItems(load.savedAds, newItems)), FALSE)
             ELSE out(FALSE, "", newItems,
                      JSONstringify(AddNewItems(load.savedAds, newItems)), TRUE)
        ELSE out(FALSE, "", newItems, load.file, FALSE)

\* ------------------------------------------------------------------ getYad2Response

\* Default parameters, line 29.
DefaultRetries == 3
DefaultMaxTimeout == 10000

\* Milliseconds a request takes to settle; node-fetch sets no timeout.
Latencies == { 100, 3000, 9000 }

\* How one request settles: res.ok, a non-2xx status (54-57), a rejection.
Responses == { "ok", "status", "network" }

\* line 42: Math.pow(2, attempt) * 1000.  A negative exponent gives a fraction
\* of a second, a whole number of milliseconds down to attempt = -3.
backoffDelay(attempt) ==
    IF attempt >= 0 THEN (2 ^ attempt) * 1000 ELSE 1000 \div (2 ^ (0 - attempt))

TimeoutReachedNever(now, startTime, maxTimeout) == FALSE

\* line 48: Date.now() - startTime > maxTimeout
TimeoutReached(now, startTime, maxTimeout) == now - startTime > maxTimeout

\* lines 29-43: the call is entered; the clock reads startTime.
InitFetch ==
    /\ det = DetectIdle
    /\ RunIdle
    /\ \E r \in (0..MaxRetriesParam) \cup { DefaultRetries },
          m \in { DefaultMaxTimeout, 3000 } :
        fx = [FetchIdle EXCEPT !.pc = "loop", !.param = r, !.retries = r,
                               !.maxTimeout = m]

CatchKeepsRetries(f) ==
    [f EXCEPT !.pc = "loop", !.delays = Append(@, backoffDelay(3 - f.retries)),
              !.now = @ + backoffDelay(3 - f.retries)]

\* lines 60-70: the catch block.  It decrements retries, throws when none is
\* left, and otherwise sleeps backoffDelay(3 - retries) before the loop goes on.
Catch(f) ==
    LET left == f.retries - 1
        delay == backoffDelay(3 - left)
    IN  IF left = 0
        THEN [f EXCEPT !.retries = left, !.pc = "threw",
                       !.err = "Network error occurred after multiple retries"]
        ELSE [f EXCEPT !.retries = left, !.pc = "loop",
                       !.delays = Append(@, delay), !.now = @ + delay]

\* lines 45-53: the loop test, the elapsed-time check and the request.  A
\* failed check throws inside the try, so the catch block handles it.
FetchAttempt ==
    /\ fx.pc = "loop"
    /\ fx' = IF fx.retries > 0
             THEN IF TimeoutReached(fx.now, fx.startTime, fx.maxTimeout)
                  THEN Catch([fx EXCEPT !.aborts = @ + 1])
                  ELSE [fx EXCEPT !.pc = "await", !.gets = @ + 1]
             ELSE [fx EXCEPT !.pc = "threw", !.err = "Failed to fetch Yad2 response"]
    /\ UNCHANGED <<det, runVars>>

\* lines 53-59: the request settles after some latency; a 2xx body is
\* returned, anything else is thrown into the catch block.
FetchSettle ==
    /\ fx.pc = "await"
    /\ \E latency \in Latencies, res \in Responses :
        LET f == [fx EXCEPT !.now = @ + latency]
        IN  fx' = IF res = "ok" THEN [f EXCEPT !.pc = "returned"] ELSE Catch(f)
    /\ UNCHANGED <<det, runVars>>

NextFetch == FetchAttempt \/ FetchSettle

SpecFetch == InitFetch /\ [][NextFetch]_vars

\* Every request settles and every sleep ends: a call that can take a step
\* takes one.
LiveFetch == InitFetch /\ [][NextFetch]_vars /\ WF_vars(NextFetch)

\* ------------------------------------------------------------------ SpecDetect

\* The ad lists handed to checkForNewItems.
AdLists == SeqsUpTo(AdPool, MaxAds)

\* State files a run can find: none, one an earlier run wrote, one whose
\* array repeats an entry (a merge of two pushes), a damaged one.
InitialFiles ==
    { Absent, JSONstringify(<<"imgA">>), JSONstringify(<<"imgA", "imgA">>) }
        \cup { Unparseable(s) : s \in CorruptTexts }

InitDetect ==
    /\ det \in [file : InitialFiles, backup : { Absent }, last : { NoCall }]
    /\ fx = FetchIdle
    /\ RunIdle

\* One call checkForNewItems(ads, topic); any number of calls follow one
\* another on the same files.
DetectCall ==
    \E ads \in AdLists, fault \in FaultsFor(det.file) :
        \E r \in { CheckForNewItems(ads, det.file, det.backup, fault) } :
            /\ UNCHANGED <<fx, runVars>>
            /\ det' = [file |-> r.file, backup |-> r.backup,
                    last |-> [made |-> TRUE, ads |-> ads, fault |-> fault,
                              before |-> det.file, threw |-> r.threw,
                              newItems |-> r.newItems, flag |-> r.flag]]

NextDetect == DetectCall

SpecDetect == InitDetect /\ [][NextDetect]_vars

\* ------------------------------------------------------------------ main and scrape

ConcurrencyOffByOne == 3 + 1

\* line 278: pLimit(3)
Concurrency == 3

\* A fetched document (lines 79-130): its title and the ads its feed items
\* give.  The bot challenge has the title of line 83 and no feed items.
Page(title, items) == [title |-> title, items |-> items]
Captcha == Page("ShieldSquare Captcha", <<>>)
Listing(items) == Page("yad2", items)

\* lines 256, 269: the template literals, as the tuple of their parts.
AdMessage(item) == <<item.fullLink>>
FailureText(errMsg) == <<"Scan workflow failed... ", "Error: ", errMsg>>

\* lines 183-206 and 209-238: one call of the Telegram API.  status is
\* "sent" while the request is in flight, then "ok" or "failed" (!response.ok
\* or a rejection, which the function rethrows).
SendMessage(text) ==
    [method |-> "sendMessage", photo |-> "", text |-> text, status |-> "sent"]
SendPhoto(photoUrl, caption) ==
    [method |-> "sendPhoto", photo |-> photoUrl, text |-> caption, status |-> "sent"]

SendItemAlwaysPhoto(item) == SendPhoto(item.imageUrl, AdMessage(item))

\* lines 256-261: a photo when the ad has an imageUrl, a text otherwise.
SendItem(item) ==
    IF item.imageUrl # ""
    THEN SendPhoto(item.imageUrl, AdMessage(item))
    ELSE SendMessage(AdMessage(item))

\* The call in flight settles.
Settled(calls, ok) ==
    [calls EXCEPT ![Len(calls)].status = IF ok THEN "ok" ELSE "failed"]

Projects == 1..Len(cfg.projects)

EnabledUnfiltered == [i \in Projects |-> i]

\* lines 280-288: the projects that are not disabled, in config order.
Enabled == SelectSeq([i \in Projects |-> i], LAMBDA i : ~cfg.projects[i].disabled)

Locals(pc) == [pc |-> pc, ads |-> <<>>, newItems |-> <<>>, next |-> 0, err |-> ""]

\* The stages between a task taking its slot and giving it back: each names
\* the await scrape() is suspended at.
InSlot == { "Fetching", "Extracting", "Detecting", "Notifying", "Reporting" }
Over == { "Done", "Failed" }

CatchHandlerRethrows(outcome) == outcome

\* lines 291-293: .catch logs and returns, so the limited promise is fulfilled
\* whether scrape() was fulfilled or rejected.
CatchHandler(outcome) == "fulfilled"

\* lines 275-297: main() maps every enabled project to a limited task; the
\* limiter queues them in config order.
MainStart ==
    /\ main = "idle"
    /\ main' = "running"
    /\ pool' = [queue |-> Enabled, activeCount |-> 0]
    /\ tp' = [i \in Projects |->
                 Locals(IF cfg.projects[i].disabled THEN "Skipped" ELSE "Pending")]
    /\ UNCHANGED <<det, fx, cfg, disk, pushMe, sent>>

\* scrape() of project i moves on to its next await.
Goto(i, locals, calls) ==
    /\ tp' = [tp EXCEPT ![i] = locals]
    /\ sent' = [sent EXCEPT ![i] = calls]
    /\ UNCHANGED <<pool, main>>

SettleKeepsSlot(i, pc, outcome) ==
    /\ tp' = [tp EXCEPT ![i] = Locals(pc)]
    /\ sent' = [sent EXCEPT ![i] = <<>>]
    /\ UNCHANGED <<pool, main>>

\* scrape() of project i is over and its frame is gone.  The limited promise
\* settles with scrape()'s outcome passed through the catch handler: the slot
\* is given back, and a rejection makes Promise.all, and so main(), reject
\* (line 297), which ends the process (lines 302-305).
Settle(i, pc, outcome) ==
    /\ tp' = [tp EXCEPT ![i] = Locals(pc)]
    /\ sent' = [sent EXCEPT ![i] = <<>>]
    /\ pool' = [pool EXCEPT !.activeCount = @ - 1]
    /\ main' = IF CatchHandler(outcome) = "rejected" THEN "rejected" ELSE main

FailWithoutMessage(i, errMsg, calls) ==
    Goto(i, [tp[i] EXCEPT !.pc = "Reporting", !.err = errMsg], calls)

\* lines 267-269: the catch block of scrape() is entered with an error and
\* calls sendTelegramMessage with the failure text.
Fail(i, errMsg, calls) ==
    Goto(i, [tp[i] EXCEPT !.pc = "Reporting", !.err = errMsg],
         Append(calls, SendMessage(FailureText(errMsg))))

\* The limiter runs the task at the head of its queue when a slot is free;
\* scrape() runs up to its first await, the GET (lines 241-252, 78, 53).
\* Without the secrets it throws before its try block: no failure message is
\* sent and the slot is given back at once.
ScrapeStart(i) ==
    /\ main = "running"
    /\ pool.queue # <<>>
    /\ i = Head(pool.queue)
    /\ pool.activeCount < Concurrency
    /\ IF cfg.secrets
       THEN /\ tp' = [tp EXCEPT ![i].pc = "Fetching"]
            /\ pool' = [queue |-> Tail(pool.queue), activeCount |-> pool.activeCount + 1]
            /\ main' = main
       ELSE /\ tp' = [tp EXCEPT ![i].pc = "Failed"]
            /\ pool' = [pool EXCEPT !.queue = Tail(@)]
            /\ main' = IF CatchHandler("rejected") = "rejected" THEN "rejected" ELSE main
    /\ UNCHANGED <<det, fx, cfg, disk, pushMe, sent>>

\* line 78: getYad2Response(url) with the default parameters returns the
\* document or throws after its last attempt.
FetchDone(i) ==
    /\ main = "running"
    /\ tp[i].pc = "Fetching"
    /\ \E got \in BOOLEAN :
        IF got
        THEN Goto(i, [tp[i] EXCEPT !.pc = "Extracting"], sent[i])
        ELSE Fail(i, "Network error occurred after multiple retries", sent[i])
    /\ UNCHANGED <<det, fx, cfg, disk, pushMe>>

\* lines 79-133: the document is parsed into the ad list; then
\* checkForNewItems runs up to its first fs call (137-144).
Extract(i) ==
    /\ main = "running"
    /\ tp[i].pc = "Extracting"
    /\ \E page \in cfg.pages :
        IF page.title = "ShieldSquare Captcha"
        THEN Fail(i, "Bot detection encountered, could not proceed", sent[i])
        ELSE IF Len(page.items) = 0
        THEN Fail(i, "Could not find feed items on the page", sent[i])
        ELSE Goto(i, [tp[i] EXCEPT !.pc = "Detecting", !.ads = page.items], sent[i])
    /\ UNCHANGED <<det, fx, cfg, disk, pushMe>>

\* line 253, then 254-261 and 264-266: checkForNewItems returns or throws;
\* with new items the message for the first is sent, with none scrape() returns.
Detect(i) ==
    /\ main = "running"
    /\ tp[i].pc = "Detecting"
    /\ \E fault \in FaultsFor(disk[i].file) :
        \E r \in { CheckForNewItems(tp[i].ads, disk[i].file, disk[i].backup, fault) } :
            /\ disk' = [disk EXCEPT ![i] = [file |-> r.file, backup |-> r.backup]]
            /\ pushMe' = (pushMe \/ r.flag)
            /\ IF r.threw
               THEN Fail(i, r.err, sent[i])
               ELSE IF Len(r.newItems) > 0
               THEN Goto(i, [tp[i] EXCEPT !.pc = "Notifying",
                                          !.newItems = r.newItems, !.next = 1],
                         Append(sent[i], SendItem(r.newItems[1])))
               ELSE Settle(i, "Done", "fulfilled")
    /\ UNCHANGED <<det, fx, cfg>>

\* lines 255-263: the message for item next settles.  A failed send throws
\* into the catch block; otherwise the loop sends the message for the item
\* after it, and after the last item scrape() returns.
Notify(i) ==
    /\ main = "running"
    /\ tp[i].pc = "Notifying"
    /\ \E ok \in BOOLEAN :
        IF ~ok
        THEN Fail(i, "Failed to send message", Settled(sent[i], FALSE))
        ELSE IF tp[i].next < Len(tp[i].newItems)
        THEN Goto(i, [tp[i] EXCEPT !.next = @ + 1],
                  Append(Settled(sent[i], TRUE), SendItem(tp[i].newItems[tp[i].next + 1])))
        ELSE Settle(i, "Done", "fulfilled")
    /\ UNCHANGED <<det, fx, cfg, disk, pushMe>>

ReportRestarts(i) ==
    /\ main = "running"
    /\ tp[i].pc = "Reporting"
    /\ Goto(i, Locals("Fetching"), <<>>)
    /\ UNCHANGED <<det, fx, cfg, disk, pushMe>>

\* lines 269-271: the failure message settles.  Delivered, scrape() logs and
\* returns; not delivered, sendTelegramMessage throws out of the catch block
\* and scrape() rejects.
Report(i) ==
    /\ main = "running"
    /\ tp[i].pc = "Reporting"
    /\ \E ok \in BOOLEAN :
        Settle(i, "Failed", IF ok THEN "fulfilled" ELSE "rejected")
    /\ UNCHANGED <<det, fx, cfg, disk, pushMe>>

\* lines 297-298: Promise.all is fulfilled once every limited promise is.
MainReturn ==
    /\ main = "running"
    /\ \A i \in Projects : tp[i].pc \in Over \cup { "Skipped" }
    /\ main' = "returned"
    /\ UNCHANGED <<det, fx, cfg, pool, tp, disk, pushMe, sent>>

\* The documents the site serves in Spec: the bot challenge, a page without
\* feed items, the listing of the ad with image imgA.
ThinPages ==
    { Captcha, Listing(<<>>) } \cup
        { Listing(<<ad>>) : ad \in { a \in AdPool : a.imageUrl = "imgA" } }

\* The state a run of the program starts in: config.json, the environment
\* and what earlier runs left in ./data: nothing before the first run, a
\* state file per project after it.
Init ==
    /\ det = DetectIdle
    /\ fx = FetchIdle
    /\ \E dis \in [1..NumTopics -> BOOLEAN], sec \in BOOLEAN :
        cfg = [projects |-> [i \in 1..NumTopics |->
                                 [topic |-> ToString(i), disabled |-> dis[i]]],
               secrets |-> sec, pages |-> ThinPages]
    /\ main = "idle"
    /\ pool = [queue |-> <<>>, activeCount |-> 0]
    /\ tp = [i \in 1..NumTopics |-> Locals("Idle")]
    /\ \E f \in { Absent, JSONstringify(<<"imgA">>) } :
        disk = [i \in 1..NumTopics |-> [file |-> f, backup |-> Absent]]
    /\ pushMe = FALSE
    /\ sent = [i \in 1..NumTopics |-> <<>>]

Next ==
    \/ MainStart
    \/ \E i \in Projects : ScrapeStart(i)
    \/ \E i \in Projects : FetchDone(i)
    \/ \E i \in Projects : Extract(i)
    \/ \E i \in Projects : Detect(i)
    \/ \E i \in Projects : Notify(i)
    \/ \E i \in Projects : Report(i)
    \/ MainReturn

Spec == Init /\ [][Next]_vars

\* Every network and filesystem operation completes and the event loop runs
\* every continuation that is ready: a run that can take a step takes one.
\* The run it starts from finds the state file of an earlier run for the
\* projects at even positions and none for the others, added since.
LiveInit ==
    /\ det = DetectIdle
    /\ fx = FetchIdle
    /\ \E dis \in [1..NumTopics -> BOOLEAN], sec \in BOOLEAN :
        cfg = [projects |-> [i \in 1..NumTopics |->
                                 [topic |-> ToString(i), disabled |-> dis[i]]],
               secrets |-> sec, pages |-> ThinPages]
    /\ main = "idle"
    /\ pool = [queue |-> <<>>, activeCount |-> 0]
    /\ tp = [i \in 1..NumTopics |-> Locals("Idle")]
    /\ disk = [i \in 1..NumTopics |->
                  [file |-> IF i % 2 = 0 THEN JSONstringify(<<"imgA">>) ELSE Absent,
                   backup |-> Absent]]
    /\ pushMe = FALSE
    /\ sent = [i \in 1..NumTopics |-> <<>>]

LiveSpec == LiveInit /\ [][Next]_vars /\ WF_vars(Next)

\* One project, every document with up to MaxAds ads, every state file a run
\* can find.
InitTopic ==
    /\ det = DetectIdle
    /\ fx = FetchIdle
    /\ \E sec \in BOOLEAN :
        cfg = [projects |-> <<[topic |-> "tel-aviv-2br", disabled |-> FALSE]>>,
               secrets |-> sec,
               pages |-> { Captcha } \cup { Listing(items) : items \in AdLists }]
    /\ main = "idle"
    /\ pool = [queue |-> <<>>, activeCount |-> 0]
    /\ tp = <<Locals("Idle")>>
    /\ disk \in [{ 1 } -> [file : InitialFiles, backup : { Absent }]]
    /\ pushMe = FALSE
    /\ sent = << <<>> >>

SpecTopic == InitTopic /\ [][Next]_vars

\* ------------------------------------------------------------------ properties

\* The identifiers a state file holds: those of the array it parses to.
SeenSet(content) ==
    IF content.kind = "json"
    THEN { content.arr[i] : i \in 1..Len(content.arr) }
    ELSE {}

Keys(items) == { items[i].imageUrl : i \in 1..Len(items) }

Returned(call) == call.made /\ ~call.threw

\* C4: a call of checkForNewItems that returns gives exactly the ads whose
\* imageUrl is not in the set loaded at its start, in input order, and leaves
\* on disk the loaded set united with the imageUrls of the returned ads.
C4_DetectNewExact ==
    Returned(det.last) =>
        /\ det.last.newItems =
               SelectSeq(det.last.ads,
                         LAMBDA ad : ad.imageUrl \notin SeenSet(det.last.before))
        /\ SeenSet(det.file) = SeenSet(det.last.before) \cup Keys(det.last.newItems)

\* C4 witness: the file holds imgA, the ads are imgA then imgB, imgB is returned.
C4_Witness ==
    /\ Returned(det.last)
    /\ det.last.before = JSONstringify(<<"imgA">>)
    /\ Len(det.last.ads) = 2
    /\ det.last.ads[1].imageUrl = "imgA"
    /\ det.last.ads[2].imageUrl = "imgB"
    /\ Len(det.last.newItems) = 1
    /\ det.file = JSONstringify(<<"imgA", "imgB">>)

\* C5: of two successive returning calls with the same ad list, the first
\* starting with at least one of the ads' keys unseen, the first returns a
\* nonempty list and the second an empty one.
C5_DedupIdempotence ==
    [][ ( /\ Returned(det.last)
          /\ Returned(det'.last)
          /\ det'.last.ads = det.last.ads
          /\ \E i \in 1..Len(det.last.ads) :
                 det.last.ads[i].imageUrl \notin SeenSet(det.last.before) )
        => ( det.last.newItems # <<>> /\ det'.last.newItems = <<>> ) ]_vars

\* C5 witness: a call on imgB ads that finds nothing new in a file holding
\* imgB alone, which only an earlier call on imgB ads can have written.
C5_Witness ==
    /\ Returned(det.last)
    /\ det.last.before = JSONstringify(<<"imgB">>)
    /\ det.last.ads # <<>>
    /\ Keys(det.last.ads) = { "imgB" }
    /\ det.last.newItems = <<>>

\* C6: a call that finds a state file that does not parse fails only when an
\* fs call rejects; when it returns, it returns every input ad and the backup
\* file holds the text the state file had.
C6_CorruptStateRecovery ==
    (det.last.made /\ det.last.before.kind = "text") =>
        /\ det.last.threw => det.last.fault # "none"
        /\ ~det.last.threw =>
               /\ det.last.newItems = det.last.ads
               /\ det.backup = det.last.before

\* C6 witness: a returning call on two ads over an unparseable file.
C6_Witness ==
    /\ Returned(det.last)
    /\ det.last.before.kind = "text"
    /\ Len(det.last.ads) = 2
    /\ det.backup.kind = "text"
    /\ det.file.kind = "json"

\* C7: no call of checkForNewItems removes an identifier from the state file.
C7_SeenSetOnlyGrows ==
    [][ SeenSet(det.file) \subseteq SeenSet(det'.file) ]_vars

\* C7 witness: a call that found a file holding imgA and added to it.
C7_Witness ==
    /\ Returned(det.last)
    /\ "imgA" \in SeenSet(det.last.before)
    /\ det.last.newItems # <<>>
    /\ Cardinality(SeenSet(det.file)) > Cardinality(SeenSet(det.last.before))

\* C8: once more than maxTimeout milliseconds have passed since startTime, the
\* call issues no further GET.
C8_NoGetAfterCeiling ==
    [][ (fx.now - fx.startTime > fx.maxTimeout) => (fx'.gets = fx.gets) ]_vars

\* C8 witness: the default call found the ceiling exceeded with retries left and
\* went round the loop again.
C8_Witness ==
    /\ fx.param = 3
    /\ fx.maxTimeout = 10000
    /\ fx.aborts >= 1
    /\ fx.retries > 0
    /\ fx.pc = "loop"

\* C9: the delay slept before the i-th retry is 2^i seconds, whatever the
\* retries parameter.
C9_BackoffExact ==
    \A i \in 1..Len(fx.delays) : fx.delays[i] = (2 ^ i) * 1000

\* The projects whose task holds a slot of the limiter.
Running == { i \in Projects : tp[i].pc \in InSlot }

\* C1: whatever fails in a project's pipeline, main() does not reject, every
\* slot a settled task held is free again, a queued project can always be
\* started now or after a running one settles, and main() returns only with
\* every enabled project Done or Failed.
C1_FailureIsolation ==
    /\ main # "rejected"
    /\ main = "running" =>
          /\ pool.activeCount = Cardinality(Running)
          /\ pool.queue # <<>> => (pool.activeCount < 3 \/ Running # {})
    /\ main = "returned" =>
          \A i \in Projects : ~cfg.projects[i].disabled => tp[i].pc \in Over

\* C1 witness: with every project enabled, the first failed, and the last,
\* which had to wait for a slot, is Done when main() has returned.
C1_Witness ==
    /\ main = "returned"
    /\ cfg.secrets
    /\ Len(Enabled) > 3
    /\ tp[1].pc = "Failed"
    /\ tp[Len(cfg.projects)].pc = "Done"

\* C2: at most 3 pipelines are between the start of Fetching and the end of
\* the last notification, and a project leaves Pending only when fewer than 3 are.
C2_BoundedConcurrency ==
    /\ [](Cardinality(Running) <= 3)
    /\ [][ \A i \in Projects :
              (tp[i].pc = "Pending" /\ tp'[i].pc # "Pending")
                  => Cardinality(Running) < 3 ]_vars

\* C2 witness: three pipelines run while a fourth project is queued.
C2_Witness ==
    /\ main = "running"
    /\ Cardinality(Running) = 3
    /\ \E i \in Projects : tp[i].pc = "Pending"

\* C3: once a project's ad notifications are over for the run, every ad that
\* checkForNewItems returned and whose key is in the persisted set (so that no
\* later run returns it) has had its message delivered.
C3_AtLeastOnce ==
    \A i \in Projects :
        tp[i].pc = "Reporting" =>
            \A k \in 1..Len(tp[i].newItems) :
                tp[i].newItems[k].imageUrl \in SeenSet(disk[i].file) =>
                    /\ k <= Len(sent[i])
                    /\ sent[i][k].text = AdMessage(tp[i].newItems[k])
                    /\ sent[i][k].status = "ok"

\* The call the claim expects for a new ad.
ExpectedCall(item, status) ==
    [method |-> IF item.imageUrl = "" THEN "sendMessage" ELSE "sendPhoto",
     photo |-> item.imageUrl, text |-> <<item.fullLink>>, status |-> status]

\* C10: while no stage has failed, the calls made are one per new ad, in the
\* order returned, a photo for an ad with an imageUrl and a text otherwise,
\* each sent after the one before it was delivered; the run ends Done only
\* after the call for the last new ad, or with no call when no ad is new.
C10_OneNotificationPerNewAd ==
    /\ [](\A i \in Projects :
            tp[i].pc = "Notifying" =>
                /\ Len(sent[i]) = tp[i].next
                /\ tp[i].next <= Len(tp[i].newItems)
                /\ \A k \in 1..tp[i].next :
                      sent[i][k] = ExpectedCall(tp[i].newItems[k],
                                                IF k < tp[i].next THEN "ok" ELSE "sent"))
    /\ [][ \A i \in Projects :
              /\ (tp[i].pc = "Notifying" /\ tp'[i].pc = "Done")
                    => Len(sent[i]) = Len(tp[i].newItems)
              /\ (tp[i].pc = "Detecting" /\ tp'[i].pc = "Done")
                    => sent[i] = <<>> ]_vars

\* C10 witness: the seen-set held imgA, the ads were imgA and imgB, and the
\* one call made is the photo of imgB, with imgA and imgB persisted.
C10_Witness ==
    /\ tp[1].pc = "Notifying"
    /\ Len(tp[1].ads) = 2
    /\ tp[1].ads[1].imageUrl = "imgA"
    /\ tp[1].ads[2].imageUrl = "imgB"
    /\ Len(sent[1]) = 1
    /\ sent[1][1].method = "sendPhoto"
    /\ sent[1][1].photo = "imgB"
    /\ disk[1].file = JSONstringify(<<"imgA", "imgB">>)

\* C11: a disabled project is never queued or started, its files are never
\* touched and no Telegram call is made for it.
C11_DisabledExcluded ==
    /\ [](\A i \in Projects :
            cfg.projects[i].disabled =>
                /\ tp[i].pc \in { "Idle", "Skipped" }
                /\ sent[i] = <<>>
                /\ \A k \in 1..Len(pool.queue) : pool.queue[k] # i)
    /\ [][ \A i \in Projects : cfg.projects[i].disabled => disk'[i] = disk[i] ]_vars

\* C11 witness: main() has returned with a disabled project skipped and an
\* enabled one Done.
C11_Witness ==
    /\ main = "returned"
    /\ \E i, j \in Projects :
        /\ cfg.projects[i].disabled /\ tp[i].pc = "Skipped"
        /\ ~cfg.projects[j].disabled /\ tp[j].pc = "Done"

\* The parts of the text of the call in flight.
LastText(i) == sent[i][Len(sent[i])].text
Contains(text, part) == \E k \in 1..Len(text) : text[k] = part

\* C12: the failure text sent for a failed project holds the topic name and
\* the error message.
C12_FailureTextNamesTopic ==
    \A i \in Projects :
        tp[i].pc = "Reporting" =>
            /\ Contains(LastText(i), cfg.projects[i].topic)
            /\ Contains(LastText(i), tp[i].err)

\* The failure messages among the calls of project i.
FailureCalls(i) ==
    { k \in 1..Len(sent[i]) : Contains(sent[i][k].text, "Scan workflow failed... ") }

\* C13: a project whose fetch, extract, detect or notify stage fails goes to
\* the catch block, where exactly one failure message is sent; however that
\* send settles, the project ends Failed, nothing is sent again and main()
\* goes on.
C13_OneFailureNotification ==
    /\ [](\A i \in Projects :
            tp[i].pc = "Reporting" =>
                /\ FailureCalls(i) = { Len(sent[i]) }
                /\ sent[i][Len(sent[i])].method = "sendMessage"
                /\ sent[i][Len(sent[i])].status = "sent")
    /\ [][ \A i \in Projects :
              /\ tp[i].pc = "Reporting" =>
                    (tp'[i].pc \in { "Reporting", "Failed" } /\ sent'[i] \in { sent[i], <<>> })
              /\ (tp[i].pc = "Reporting" /\ tp'[i].pc = "Failed") => main' = "running"
              /\ (tp[i].pc \in InSlot /\ tp'[i].pc = "Failed") => tp[i].pc = "Reporting" ]_vars

\* C13 witness: the message for a new ad failed and the failure message is
\* on its way.
C13_Witness ==
    \E i \in Projects :
        /\ tp[i].pc = "Reporting"
        /\ Len(sent[i]) = 2
        /\ sent[i][1].status = "failed"
        /\ sent[i][2].status = "sent"

\* C14: when the elapsed-time check finds the ceiling exceeded, the call
\* throws at once: retries is not decremented and no backoff delay is slept.
C14_TimeoutFailsImmediately ==
    [][ ( /\ fx.pc = "loop"
          /\ fx.retries > 0
          /\ TimeoutReached(fx.now, fx.startTime, fx.maxTimeout) )
        => ( /\ fx'.pc = "threw"
             /\ fx'.retries = fx.retries
             /\ fx'.delays = fx.delays ) ]_vars

\* The positions of the ads without an image.
Imageless(items) == { k \in 1..Len(items) : items[k].imageUrl = "" }

\* C16 (as stated): no call returns more than one ad without an image, and
\* none once the empty key is in the seen-set, so that at most one such ad is
\* ever returned.
C16_AtMostOneImageless ==
    Returned(det.last) =>
        /\ Cardinality(Imageless(det.last.newItems)) <= 1
        /\ "" \in SeenSet(det.last.before) => Imageless(det.last.newItems) = {}

\* C16 (amended): ads without an image are returned by at most one call.  A
\* call returns them only when the empty key is not in the set it loaded, it
\* then returns every such ad of its list and stores the empty key, and the
\* key stays in the file.
C16_ImagelessReportedByOneCall ==
    /\ [](Returned(det.last) =>
            /\ Cardinality(Imageless(det.last.newItems)) =
                   IF "" \in SeenSet(det.last.before)
                   THEN 0 ELSE Cardinality(Imageless(det.last.ads))
            /\ Imageless(det.last.newItems) # {} => "" \in SeenSet(det.file))
    /\ [][ /\ "" \in SeenSet(det.file) => "" \in SeenSet(det'.file)
           /\ det'.last.before = det.file ]_vars

\* C16 witness: a call has returned two ads without an image.
C16_Witness ==
    /\ Returned(det.last)
    /\ Cardinality(Imageless(det.last.newItems)) = 2

\* C17: a returning call that found a state file that parses and no new ad
\* leaves the file as it was and writes no push_me; the file differs from what
\* the call found only when it returned new ads, and then holds their keys.
C17_WriteOnlyWhenNew ==
    Returned(det.last) =>
        /\ (det.last.before.kind = "json" /\ det.last.newItems = <<>>) =>
               (det.file = det.last.before /\ ~det.last.flag)
        /\ (det.last.before.kind = "json" /\ det.file # det.last.before) =>
               (det.last.newItems # <<>> /\ Keys(det.last.newItems) \subseteq SeenSet(det.file))

\* C17 witness: a call with imgA ads on a file whose array holds imgA twice
\* has returned nothing.
C17_Witness ==
    /\ Returned(det.last)
    /\ det.last.before = JSONstringify(<<"imgA", "imgA">>)
    /\ det.last.ads # <<>>
    /\ det.last.newItems = <<>>

\* A call with the default parameters, and a call that is over.
DefaultCall == fx.param = DefaultRetries /\ fx.maxTimeout = DefaultMaxTimeout
FetchOver == fx.pc \in { "returned", "threw" }

\* C20: a call with the default parameters issues at most 3 requests; each
\* request that settles without a 2xx status takes one retry, whichever way
\* it failed; the call returns at the first 2xx response, throws with no
\* retry left, and always comes to one of the two.
C20_DefaultCallTerminates ==
    /\ [](DefaultCall =>
            /\ fx.gets <= 3
            /\ fx.pc = "loop" => fx.gets + fx.aborts + fx.retries = 3
            /\ fx.pc \in { "await", "returned" } => fx.gets + fx.aborts + fx.retries = 4
            /\ fx.pc = "threw" => (fx.retries = 0 /\ fx.gets + fx.aborts = 3))
    /\ [][ DefaultCall =>
             /\ (fx.pc = "await" /\ fx'.pc # "returned") => fx'.retries = fx.retries - 1
             /\ fx'.pc = "returned" => fx.pc = "await"
             /\ FetchOver => fx' = fx ]_vars
    /\ (DefaultCall ~> FetchOver)

\* C20 witness: a call with the default parameters has thrown after three
\* requests.
C20_Witness ==
    /\ DefaultCall
    /\ fx.pc = "threw"
    /\ fx.gets = 3

\* The steps scrape() of a project can take from each position.
StageOrder ==
    [Idle |-> { "Pending", "Skipped" }, Skipped |-> {}, Pending |-> { "Fetching", "Failed" },
     Fetching |-> { "Extracting", "Reporting" }, Extracting |-> { "Detecting", "Reporting" },
     Detecting |-> { "Notifying", "Done", "Reporting" },
     Notifying |-> { "Notifying", "Done", "Reporting" },
     Reporting |-> { "Failed" }, Done |-> {}, Failed |-> {}]

\* The call in flight of project i is the message of a new ad.
AdCallInFlight(calls) ==
    /\ calls # <<>>
    /\ calls[Len(calls)].status = "sent"
    /\ ~Contains(calls[Len(calls)].text, "Scan workflow failed... ")

\* C15: a project goes through fetch, extraction, detection and notification
\* in this order; its files and push_me are written only by its detection
\* step; a message for a new ad is sent only once detection has returned and
\* the file holds the new keys; after a failure the project only sends the
\* failure message and ends Failed, writing and announcing nothing more.
C15_StagesSequential ==
    /\ [](\A i \in Projects :
            /\ AdCallInFlight(sent[i]) <=> tp[i].pc = "Notifying"
            /\ tp[i].pc = "Notifying" =>
                   Keys(tp[i].newItems) \subseteq SeenSet(disk[i].file))
    /\ [][ /\ \A i \in Projects :
                /\ tp'[i].pc # tp[i].pc => tp'[i].pc \in StageOrder[tp[i].pc]
                /\ disk'[i] # disk[i] => tp[i].pc = "Detecting"
                /\ tp[i].pc \in { "Reporting", "Failed" } =>
                       (tp'[i].pc \in { "Reporting", "Failed" } /\ ~AdCallInFlight(sent'[i]))
           /\ pushMe' # pushMe => \E i \in Projects : tp[i].pc = "Detecting" ]_vars

\* C15 witness: the second of two new ads is being announced.
C15_Witness ==
    \E i \in Projects :
        /\ tp[i].pc = "Notifying"
        /\ tp[i].next = 2
        /\ Len(sent[i]) = 2

\* C18: push_me is not there when a run starts, is there after every step in
\* which a project's checkForNewItems returns new ads, and comes into being in
\* no other step.
C18_MarkerIffNewItems ==
    /\ [](main = "idle" => ~pushMe)
    /\ [][ /\ (\E i \in Projects : tp[i].pc = "Detecting" /\ tp'[i].pc = "Notifying")
               => pushMe'
           /\ (~pushMe /\ pushMe')
               => \E i \in Projects : tp[i].pc = "Detecting" /\ tp'[i].pc = "Notifying" ]_vars

\* C18 witness: a run is over with push_me written, one project Done and one
\* Failed.
C18_Witness ==
    /\ main = "returned"
    /\ pushMe
    /\ \E i, j \in Projects : tp[i].pc = "Done" /\ tp[j].pc = "Failed"

\* C18 witness of the other case: a run is over with a project Done and
\* push_me not written.
C18_NoMarkerWitness ==
    /\ main = "returned"
    /\ ~pushMe
    /\ \E i \in Projects : tp[i].pc = "Done"

\* C19: main() returns only with every enabled project Done or Failed, and
\* when every operation completes it does return.
C19_RunReturns ==
    /\ [](main = "returned" =>
            \A i \in Projects : ~cfg.projects[i].disabled => tp[i].pc \in Over)
    /\ <>(main = "returned")

\* C19 witness: main() has returned with more enabled projects than slots,
\* some Done and some Failed.
C19_Witness ==
    /\ main = "returned"
    /\ Len(Enabled) > Concurrency
    /\ \E i, j \in Projects : tp[i].pc = "Done" /\ tp[j].pc = "Failed"

====
